---------------------------- MODULE Spec2Model ----------------------------
(***************************************************************************)
(* Torque2Warp10: a webhook adapter that receives GET requests from the    *)
(* Torque application, maps the query parameters found in the Key          *)
(* Directory (torqueKeys) to Geo Time Series records and POSTs each record *)
(* to a Warp10 datastore.                                                  *)
(*                                                                         *)
(* The repository holds three variants of the program:                     *)
(*   "main"     src/main.go               no gate, no identity label       *)
(*   "part_000" src/unnamed/part_000      allow-list (Users slice) gate    *)
(*   "part_001" src/unnamed/part_001      single-user gate, time + "000"   *)
(* The variable `variant` says which of them a behaviour runs.             *)
(***************************************************************************)
EXTENDS Integers, Sequences, FiniteSets

(***************************************************************************)
(* Strings.  Go strings are modelled by TLA+ strings; Char(s, i) is the    *)
(* i-th byte of s (1-based).                                               *)
(***************************************************************************)
Char(s, i) == SubSeq(s, i, i)

Digits == <<"0", "1", "2", "3", "4", "5", "6", "7", "8", "9">>

IsDigit(c) == \E d \in 1..10 : Digits[d] = c

DigitVal(c) == (CHOOSE d \in 1..10 : Digits[d] = c) - 1

RECURSIVE AllDigits(_)
AllDigits(s) == IF Len(s) = 0 THEN TRUE
                ELSE IsDigit(Char(s, 1)) /\ AllDigits(SubSeq(s, 2, Len(s)))

\* The value of a string of decimal digits.
RECURSIVE DecValue(_)
DecValue(s) == IF Len(s) = 0 THEN 0
               ELSE 10 * DecValue(SubSeq(s, 1, Len(s) - 1)) + DigitVal(Char(s, Len(s)))

\* The index of the first occurrence of byte c in s, 0 when there is none.
RECURSIVE IndexFrom(_, _, _)
IndexFrom(s, c, i) == IF i > Len(s) THEN 0
                      ELSE IF Char(s, i) = c THEN i
                      ELSE IndexFrom(s, c, i + 1)

Index(s, c) == IndexFrom(s, c, 1)

\* strings.Split(s, sep) for a one-byte separator: Split("", ",") is <<"">>.
RECURSIVE Split(_, _)
Split(s, sep) ==
    LET i == Index(s, sep)
    IN  IF i = 0 THEN <<s>>
        ELSE <<SubSeq(s, 1, i - 1)>> \o Split(SubSeq(s, i + 1, Len(s)), sep)

\* strconv.Itoa for the integers of the model.
RECURSIVE NatToStr(_)
NatToStr(n) == IF n < 10 THEN Digits[n + 1]
               ELSE NatToStr(n \div 10) \o Digits[(n % 10) + 1]

Itoa(i) == IF i < 0 THEN "-" \o NatToStr(-i) ELSE NatToStr(i)

(***************************************************************************)
(* IEEE-754 binary64 arithmetic, as strconv.ParseFloat(s, 64) and the      *)
(* float64 product i * 1000.0 compute it.  A nonzero float64 is            *)
(* [neg, zero |-> FALSE, mant, exp]: mant is the 53-bit significand, most  *)
(* significant bit first, and the value is mant * 2^exp.  The model covers *)
(* plain decimal literals [+-]digits[.digits] of at most 9 digits, at most *)
(* 4 of them after the point, of magnitude below 2^30 / 1000 (no exponent, *)
(* hex, Inf or NaN forms, no subnormals): the elevations the model draws.  *)
(***************************************************************************)
MantBits == 53

Millis == 1000

\* The number of bits of n (0 for 0), n < 2^30.
BitLen(n) == CHOOSE L \in 0..30 : n < 2^L /\ (L = 0 \/ n >= 2^(L - 1))

\* n on w bits, most significant bit first.
FixedBits(n, w) == [j \in 1..w |-> (n \div 2^(w - j)) % 2]

NatBits(n) == FixedBits(n, BitLen(n))

\* The natural number a bit sequence of fewer than 31 bits stands for.
RECURSIVE BitsToNat(_)
BitsToNat(b) ==
    IF Len(b) = 0 THEN 0
    ELSE IF Len(b) = 1 THEN b[1]
    ELSE LET h == Len(b) \div 2
         IN  BitsToNat(SubSeq(b, 1, h)) * 2^(Len(b) - h) + BitsToNat(SubSeq(b, h + 1, Len(b)))

Zeros(n) == [j \in 1..n |-> 0]

\* b + 1 on a bit sequence; one bit longer on overflow.
IncBits(b) ==
    IF \A j \in 1..Len(b) : b[j] = 1 THEN <<1>> \o Zeros(Len(b))
    ELSE LET p == CHOOSE j \in 1..Len(b) : b[j] = 0 /\ \A k \in (j + 1)..Len(b) : b[k] = 1
         IN  [j \in 1..Len(b) |-> IF j < p THEN b[j] ELSE IF j = p THEN 1 ELSE 0]

\* 2^k mod D, D < 2^15.
RECURSIVE Pow2Mod(_, _)
Pow2Mod(k, D) ==
    IF k = 0 THEN 1 % D
    ELSE LET h  == Pow2Mod(k \div 2, D)
             sq == (h * h) % D
         IN  IF k % 2 = 0 THEN sq ELSE (2 * sq) % D

\* What is left of r/D (0 <= r < D) after its first k binary digits, times D.
FracRem(r, D, k) == (r * Pow2Mod(k, D)) % D

\* The k-th binary digit (k >= 1) of the fraction r/D.
FracBit(r, D, k) == IF 2 * FracRem(r, D, k - 1) >= D THEN 1 ELSE 0

\* A significand that came out one bit too long after an increment.
Renorm(bits, exp) ==
    IF Len(bits) > MantBits THEN [mant |-> SubSeq(bits, 1, MantBits), exp |-> exp + 1]
    ELSE [mant |-> bits, exp |-> exp]

\* The float64 nearest to n / D (0 < n < 2^30, D < 2^15, n / D >= 2^-30), ties to even.
NearestFloat(n, D) ==
    LET ip   == NatBits(n \div D)
        r    == n % D
        \* leading zero digits of the fraction, skipped when the integer part is 0
        skip == IF Len(ip) > 0 THEN 0
                ELSE CHOOSE z \in 0..30 : FracBit(r, D, z + 1) = 1
                                          /\ \A k \in 1..z : FracBit(r, D, k) = 0
        nf   == skip + MantBits - Len(ip)
        bits == [j \in 1..MantBits |->
                    IF j <= Len(ip) THEN ip[j] ELSE FracBit(r, D, skip + j - Len(ip))]
        rem  == FracRem(r, D, nf)
        up   == 2 * rem > D \/ (2 * rem = D /\ bits[MantBits] = 1)
    IN  Renorm(IF up THEN IncBits(bits) ELSE bits, -nf)

FloatZero(neg) == [neg |-> neg, zero |-> TRUE, mant |-> Zeros(MantBits), exp |-> 0]

\* The decimal literal s, as ParseFloat reads it: the value is n / 10^k, negated if neg.
Decimal(s) ==
    LET signed == Len(s) > 0 /\ Char(s, 1) \in {"-", "+"}
        body   == IF signed THEN SubSeq(s, 2, Len(s)) ELSE s
        dot    == Index(body, ".")
        ipart  == IF dot = 0 THEN body ELSE SubSeq(body, 1, dot - 1)
        fpart  == IF dot = 0 THEN "" ELSE SubSeq(body, dot + 1, Len(body))
        ok     == AllDigits(ipart) /\ AllDigits(fpart) /\ Len(ipart) + Len(fpart) > 0
    IN  [ok  |-> ok,
         neg |-> Len(s) > 0 /\ Char(s, 1) = "-",
         n   |-> IF ok THEN DecValue(ipart \o fpart) ELSE 0,
         k   |-> Len(fpart)]

\* strconv.ParseFloat(s, 64), as [err, f]; on a syntax error f is 0.
ParseFloat(s) ==
    LET d == Decimal(s)
    IN  IF ~d.ok THEN [err |-> TRUE, f |-> FloatZero(FALSE)]
        ELSE IF d.n = 0 THEN [err |-> FALSE, f |-> FloatZero(d.neg)]
        ELSE LET r == NearestFloat(d.n, 10^d.k)
             IN  [err |-> FALSE,
                  f |-> [neg |-> d.neg, zero |-> FALSE, mant |-> r.mant, exp |-> r.exp]]

\* bits * m + carry for a small natural m (m < 2^15), in limbs of 14 bits from the
\* low end.
RECURSIVE MulSmall(_, _, _)
MulSmall(bits, m, carry) ==
    LET w == 14
    IN  IF Len(bits) <= w THEN NatBits(BitsToNat(bits) * m + carry)
        ELSE LET cut == Len(bits) - w
                 t   == BitsToNat(SubSeq(bits, cut + 1, Len(bits))) * m + carry
             IN  MulSmall(SubSeq(bits, 1, cut), m, t \div 2^w) \o FixedBits(t % 2^w, w)

\* The exact product p * 2^exp rounded to MantBits bits, ties to even.
RoundProduct(p, exp) ==
    LET t == Len(p) - MantBits
    IN  IF t <= 0 THEN [mant |-> p \o Zeros(-t), exp |-> exp + t]
        ELSE LET kept   == SubSeq(p, 1, MantBits)
                 half   == p[MantBits + 1] = 1
                 sticky == \E j \in (MantBits + 2)..Len(p) : p[j] = 1
                 up     == half /\ (sticky \/ kept[MantBits] = 1)
             IN  Renorm(IF up THEN IncBits(kept) ELSE kept, exp + t)

\* The float64 product f * m, m a small natural (exactly representable).
FloatMul(f, m) ==
    IF f.zero THEN f
    ELSE LET r == RoundProduct(MulSmall(f.mant, m, 0), f.exp)
         IN  [neg |-> f.neg, zero |-> FALSE, mant |-> r.mant, exp |-> r.exp]

\* Go's conversion int(f): truncation toward zero (|f| < 2^30).
FloatToInt(f) ==
    IF f.zero THEN 0
    ELSE LET keep == MantBits + f.exp
             mag  == IF keep <= 0 THEN 0 ELSE BitsToNat(SubSeq(f.mant, 1, keep))
         IN  IF f.neg THEN -mag ELSE mag

(***************************************************************************)
(* Inputs of the model: the process environment, the outcome of fetching   *)
(* keys.csv, the requests Torque sends, the outcomes of an outbound POST.  *)
(***************************************************************************)
Variants == {"main", "part_000", "part_001"}

\* The largest number of handler executions in flight at once.
MaxConc == 2

Slots == 1..MaxConc

Envs == [WARP10_ENDPOINT : {"", "http://w10"},
         WARP10_TOKEN    : {"", "tok"},
         ALLOWED_USERS   : {"", "a@x", "a@x,b@x"}]

Header == <<"key", "name", "tag">>

\* What http.Get of keys.csv gives: a transport error, or the rows of the body.
CsvFetches ==
    { [err |-> TRUE,  rows |-> <<>>],
      [err |-> FALSE, rows |-> <<Header, <<"kc", "rpm", "">>,
                                 <<"kd", "speed", "type=sensor">>>>],
      [err |-> FALSE, rows |-> <<Header, <<"kc", "rpm_old", "unit=x">>,
                                 <<"kc", "rpm", "">>,
                                 <<"kd", "speed", "type=sensor">>>>],
      [err |-> FALSE, rows |-> <<Header, <<"kc", "rpm">>>>] }

EmptyMap == [k \in {} |-> ""]

KV(k, v) == [x \in {k} |-> v]

Merge(f, g) == [k \in DOMAIN f \cup DOMAIN g |-> IF k \in DOMAIN f THEN f[k] ELSE g[k]]

ElevInputs == {"12.345", "0", "1.001", "abc"}

EmlOpts == {EmptyMap, KV("eml", "a@x"), KV("eml", "evil@x")}

GeoFull(e) == Merge(KV("kff1005", "3.0"), Merge(KV("kff1006", "45.0"), KV("kff1010", e)))

GeoOpts ==
    { GeoFull(e) : e \in ElevInputs }
    \cup { Merge(KV("kff1006", "45.0"), KV("kff1010", "12.345")),                      \* no longitude
           Merge(KV("kff1005", "3.0"), Merge(KV("kff1006", ""), KV("kff1010", "0"))),  \* empty latitude
           Merge(KV("kff1005", "3.0"), KV("kff1006", "45.0")),                         \* no elevation
           EmptyMap }

IdOpts == {KV("id", "7"), KV("id", "42")}

FieldValues == [kc |-> "3000", kd |-> "87", v |-> "8"]

ExtraOpts == { [k \in S |-> FieldValues[k]] : S \in SUBSET DOMAIN FieldValues }

\* The query parameters of the requests (a key's first value, as Values.Get reads it).
Requests ==
    { Merge(KV("time", "100"), Merge(e, Merge(g, Merge(d, x)))) :
        e \in EmlOpts, g \in GeoOpts, d \in IdOpts, x \in ExtraOpts }

\* The requests of the executions that overlap.
ConcRequests ==
    { Merge(KV("time", "100"), Merge(KV("eml", "evil@x"), Merge(GeoFull("12.345"),
            Merge(KV("id", "7"), [k \in {"kc", "kd"} |-> FieldValues[k]])))),
      Merge(KV("time", "200"), Merge(KV("eml", "evil@x"), Merge(GeoFull("0"),
            Merge(KV("id", "42"), [k \in {"kd", "v"} |-> FieldValues[k]])))) }

\* What client.Do gives: a response with status 200, one with another status, an error.
Outcomes == {"200", "500", "error"}

(***************************************************************************)
(* The program state.                                                      *)
(***************************************************************************)
VARIABLES
    variant,     \* which of the three programs runs
    env,         \* the process environment
    proc,        \* "boot", "initialized" (init returned), "serving", "exited"
    users,       \* part_000: the allowed users
    torqueKeys,  \* the Key Directory: field code -> TorqueKey
    h            \* the executions of query, one per slot; pc is "idle", "loop",
                 \* "gated" (an early return), "done" (the last line) or "panicked"

vars == <<variant, env, proc, users, torqueKeys, h>>

warp10Endpoint == env.WARP10_ENDPOINT

warp10Token == env.WARP10_TOKEN

\* part_001: the one allowed user.
user == env.ALLOWED_USERS

FieldsPerRecord == 3

StatusOK == 200

NoResponse == [state |-> "none", status |-> 0, ctype |-> "", body |-> ""]

\* The connection of a handler that panicked: net/http recovers the panic and
\* closes the connection; nothing was written, so the caller gets no response.
Aborted == [state |-> "aborted", status |-> 0, ctype |-> "", body |-> ""]

\* w.Header().Set("Content-Type", "text/html"); w.Write([]byte("OK!"))
Ack == [state |-> "sent", status |-> StatusOK, ctype |-> "text/html", body |-> "OK!"]

\* main.go: the handler returns without writing: net/http answers 200 with no body.
ImplicitOK == [state |-> "sent", status |-> StatusOK, ctype |-> "", body |-> ""]

IdleHandler ==
    [pc |-> "idle", params |-> EmptyMap, id |-> "", longitude |-> "", latitude |-> "",
     altitude |-> "", time |-> "", todo |-> {}, posts |-> <<>>, resp |-> NoResponse,
     log |-> <<>>]

GTS(ts, lat, long, elev, name, labels, value) ==
    [TS |-> ts, Lat |-> lat, Long |-> long, Elev |-> elev, Name |-> name,
     Labels |-> labels, Value |-> value]

\* A faulty GTSPrint: latitude and longitude exchanged.
GTSPrint_swapped(gts) ==
    gts.TS \o "/" \o gts.Long \o ":" \o gts.Lat \o "/" \o gts.Elev \o " " \o gts.Name
        \o "{" \o gts.Labels \o "}" \o " " \o gts.Value

GTSPrint(gts) ==
    gts.TS \o "/" \o gts.Lat \o ":" \o gts.Long \o "/" \o gts.Elev \o " " \o gts.Name
        \o "{" \o gts.Labels \o "}" \o " " \o gts.Value

TorqueKey(name, tag) == [MetricName |-> name, Tag |-> tag]

\* r.URL.Query().Get(key): "" when the key is absent.
Get(params, key) == IF key \in DOMAIN params THEN params[key] ELSE ""

stringInSlice(str, list) == \E j \in 1..Len(list) : list[j] = str

(***************************************************************************)
(* init and main.                                                          *)
(***************************************************************************)
\* part_000: users after the loop appending strings.Split(env, ",").
usersFromEnv(e) == Split(e.ALLOWED_USERS, ",")

\* csv.Reader.ReadAll with FieldsPerRecord = 3 fails on a row of another length.
ReadAllFails(rows) == \E j \in 1..Len(rows) : Len(rows[j]) # FieldsPerRecord

\* The loop feeding torqueKeys: the first row is skipped, a repeated key keeps its last row.
feedTorqueKeys(rows) ==
    LET last(k) == CHOOSE j \in 2..Len(rows) :
                       rows[j][1] = k /\ \A m \in (j + 1)..Len(rows) : rows[m][1] # k
    IN  [k \in { rows[j][1] : j \in 2..Len(rows) } |->
            TorqueKey(rows[last(k)][2], rows[last(k)][3])]

\* Whether init ends the process, given what fetching keys.csv gave.
initFails(v, e, u, fetch) ==
    \/ v = "part_000" /\ Len(u) = 0                              \* log.Panicln("No User registered!")
    \/ Len(e.WARP10_ENDPOINT) = 0 \/ Len(e.WARP10_TOKEN) = 0     \* os.Exit(1)
    \/ fetch.err                                                 \* os.Exit(1)
    \/ ReadAllFails(fetch.rows)                                  \* os.Exit(1)

init(fetch) ==
    /\ proc = "boot"
    /\ users' = IF variant = "part_000" THEN usersFromEnv(env) ELSE users
    /\ IF initFails(variant, env, users', fetch)
       THEN /\ proc' = "exited"
            /\ UNCHANGED torqueKeys
       ELSE /\ proc' = "initialized"
            /\ torqueKeys' = feedTorqueKeys(fetch.rows)
    /\ UNCHANGED <<variant, env, h>>

\* main: http.HandleFunc, then http.ListenAndServe, whose error ends main.
main(listening) ==
    /\ proc = "initialized"
    /\ proc' = IF listening THEN "serving" ELSE "exited"
    /\ UNCHANGED <<variant, env, users, torqueKeys, h>>

(***************************************************************************)
(* query, up to its loop over the parameters.                              *)
(***************************************************************************)
geoMissing(p) ==
    Len(Get(p, "kff1005")) = 0 \/ Len(Get(p, "kff1006")) = 0 \/ Len(Get(p, "kff1010")) = 0

\* part_000: the first return of query.
gate_part000(p, us) == stringInSlice(Get(p, "eml"), us)

\* part_001: the condition of the one early return.
gate_part001(p, u) == geoMissing(p) \/ Get(p, "eml") = u

\* altitude := strconv.Itoa(int(i * 1000.0)), i the parsed kff1010 (0 on a parse error).
altitude(s) == Itoa(FloatToInt(FloatMul(ParseFloat(s).f, Millis)))

acked(p, line) ==
    [IdleHandler EXCEPT !.pc = "gated", !.params = p, !.resp = Ack, !.log = <<line>>]

\* The locals of query when it reaches its loop.
looping(p, alt, log) ==
    [IdleHandler EXCEPT !.pc = "loop", !.params = p, !.id = Get(p, "id"),
                        !.longitude = Get(p, "kff1005"), !.latitude = Get(p, "kff1006"),
                        !.altitude = alt, !.time = Get(p, "time"),
                        !.todo = DOMAIN p, !.log = log]

parsed(p) ==
    looping(p, altitude(Get(p, "kff1010")),
            IF ParseFloat(Get(p, "kff1010")).err THEN <<"ParseFloat: invalid syntax">> ELSE <<>>)

queryEntry_main(p) == looping(p, Get(p, "kff1010"), <<>>)

queryEntry_part000(p, us) ==
    IF gate_part000(p, us) THEN acked(p, "unauthorized")
    ELSE IF geoMissing(p) THEN acked(p, "No GPS Data, moving on")
    ELSE parsed(p)

queryEntry_part001(p, u) ==
    IF gate_part001(p, u) THEN acked(p, "No GPS Data, moving on")
    ELSE parsed(p)

queryEntry(p) ==
    CASE variant = "main"     -> queryEntry_main(p)
      [] variant = "part_000" -> queryEntry_part000(p, users)
      [] variant = "part_001" -> queryEntry_part001(p, user)

\* The listener hands a request to a new execution of query.
query(i, p) ==
    /\ proc = "serving"
    /\ h[i].pc = "idle"
    /\ h' = [h EXCEPT ![i] = queryEntry(p)]
    /\ UNCHANGED <<variant, env, proc, users, torqueKeys>>

(***************************************************************************)
(* One round of the loop of query for a key of the Key Directory: the      *)
(* record, and sendToWarp10.                                               *)
(***************************************************************************)
\* A faulty withId: the comma is written whether or not there is a tag.
withId_comma(id, tag) == "id=" \o id \o "," \o tag

\* val.Tag after "ID is part of the tags".
withId(id, tag) == IF Len(tag) = 0 THEN "id=" \o id ELSE "id=" \o id \o "," \o tag

record_main(x, val, value) ==
    GTS(x.time, x.latitude, x.longitude, x.altitude, val.MetricName, val.Tag, value)

record_part000(x, val, value) ==
    GTS(x.time, x.latitude, x.longitude, x.altitude, val.MetricName,
        withId(x.id, val.Tag), value)

record_part001(x, val, value) ==
    GTS(x.time \o "000", x.latitude, x.longitude, x.altitude, val.MetricName,
        withId(x.id, val.Tag), value)

\* A faulty record: the fields of the TorqueKey in the wrong places.
record_swapped(x, val, value) ==
    GTS(x.time, x.latitude, x.longitude, x.altitude, val.Tag, val.MetricName, value)

record(x, val, value) ==
    CASE variant = "main"     -> record_main(x, val, value)
      [] variant = "part_000" -> record_part000(x, val, value)
      [] variant = "part_001" -> record_part001(x, val, value)

\* A faulty torqueKeysAfterTag: the map holds references, the tag is written
\* to the entry.
torqueKeysAfterTag_shared(tk, key, tag) == [tk EXCEPT ![key].Tag = tag]

\* The Key Directory after `val, ok := torqueKeys[key]` and the assignment to
\* val.Tag: val is a copy of the map's TorqueKey, the map keeps its entry.
torqueKeysAfterTag(tk, key, tag) == tk

\* main.go: sendToWarp10 panics on a transport error and ignores the status.
sendPanics_main(o) == o = "error"

\* part_000, part_001: resp.StatusCode is read first: a nil resp (transport error)
\* is a nil dereference, a status other than 200 is log.Panicln.
sendPanics_part(o) == o # "200"

sendPanics(o) == IF variant = "main" THEN sendPanics_main(o) ELSE sendPanics_part(o)

sendLog(o) == IF variant # "main" /\ o = "500" THEN <<"Error 500">> ELSE <<>>

queryLoop(i, key, o) ==
    /\ proc = "serving"
    /\ h[i].pc = "loop"
    /\ key \in h[i].todo
    /\ key \in DOMAIN torqueKeys
    /\ LET val  == torqueKeys[key]
           gts  == record(h[i], val, Get(h[i].params, key))
           post == [key |-> key, gts |-> gts, body |-> GTSPrint(gts), outcome |-> o]
       IN  /\ torqueKeys' = torqueKeysAfterTag(torqueKeys, key, gts.Labels)
           /\ h' = [h EXCEPT ![i] =
                      IF sendPanics(o)
                      THEN [@ EXCEPT !.pc = "panicked", !.posts = @ \o <<post>>,
                                     !.log = @ \o sendLog(o), !.resp = Aborted]
                      ELSE [@ EXCEPT !.todo = @ \ {key}, !.posts = @ \o <<post>>]]
    /\ UNCHANGED <<variant, env, proc, users>>

\* What query writes once its loop is over.
reply == IF variant = "main" THEN ImplicitOK ELSE Ack

\* The loop is over: no key of the directory is left.
queryReturn(i) ==
    /\ proc = "serving"
    /\ h[i].pc = "loop"
    /\ h[i].todo \cap DOMAIN torqueKeys = {}
    /\ h' = [h EXCEPT ![i] = [@ EXCEPT !.pc = "done", !.todo = {}, !.resp = reply]]
    /\ UNCHANGED <<variant, env, proc, users, torqueKeys>>

\* net/http ends the execution: the response has gone out, or the connection of
\* a handler that panicked was closed.
finish(i) ==
    /\ h[i].pc \in {"gated", "done", "panicked"}
    /\ h' = [h EXCEPT ![i] = IdleHandler]
    /\ UNCHANGED <<variant, env, proc, users, torqueKeys>>

(***************************************************************************)
(* Specifications.  Spec: one execution of query at a time, every request  *)
(* of Requests.  SpecGated, Spec000 and Spec001 are Spec for the variants   *)
(* with a gate, for part_000 alone and for part_001 alone.  SpecConc: up   *)
(* to MaxConc executions of the variants with a gate, interleaved at their *)
(* outbound calls, on ConcRequests.                                        *)
(***************************************************************************)
InitFor(V) ==
    /\ variant \in V
    /\ env \in Envs
    /\ proc = "boot"
    /\ users = <<>>
    /\ torqueKeys = EmptyMap
    /\ h = [i \in Slots |-> IdleHandler]

Init == InitFor(Variants)

Startup ==
    \/ \E fetch \in CsvFetches : init(fetch)
    \/ \E listening \in BOOLEAN : main(listening)

Next ==
    \/ Startup
    \/ \E p \in Requests : query(1, p)
    \/ \E key \in DOMAIN h[1].params, o \in Outcomes : queryLoop(1, key, o)
    \/ queryReturn(1)
    \/ finish(1)

NextConc ==
    \/ Startup
    \/ \E i \in Slots, p \in ConcRequests : query(i, p)
    \/ \E i \in Slots : \E key \in DOMAIN h[i].params, o \in Outcomes : queryLoop(i, key, o)
    \/ \E i \in Slots : queryReturn(i)
    \/ \E i \in Slots : finish(i)

Spec == Init /\ [][Next]_vars

SpecGated == InitFor({"part_000", "part_001"}) /\ [][Next]_vars

Spec000 == InitFor({"part_000"}) /\ [][Next]_vars

Spec001 == InitFor({"part_001"}) /\ [][Next]_vars

SpecMain000 == InitFor({"main", "part_000"}) /\ [][Next]_vars

SpecConc == InitFor({"part_000", "part_001"}) /\ [][NextConc]_vars

(***************************************************************************)
(* Properties.                                                             *)
(***************************************************************************)
Started(x) == x.pc # "idle"

Finished(x) == x.pc \in {"gated", "done", "panicked"}

\* The keys of a request that the Key Directory holds.
Recognized(p) == DOMAIN p \cap DOMAIN torqueKeys

PostKeys(x) == { x.posts[j].key : j \in 1..Len(x.posts) }

\* The authorized identities ALLOWED_USERS lists.
AllowedUsers == Split(env.ALLOWED_USERS, ",")

Authorized(p) == \E j \in 1..Len(AllowedUsers) :
                     AllowedUsers[j] # "" /\ AllowedUsers[j] = Get(p, "eml")

\* C1: every request query handled has received the fixed acknowledgment (200,
\* text/html, OK!), whatever the outbound calls of sendToWarp10 gave.
C1_AlwaysAcked == \A i \in Slots : Finished(h[i]) => h[i].resp = Ack

\* C2: a request that lacks one of kff1005, kff1006, kff1010 makes no outbound
\* POST, whatever other keys it carries, and is acknowledged with OK!.
C2_NoGeoNoPost ==
    \A i \in Slots :
        (Started(h[i]) /\ geoMissing(h[i].params))
            => /\ h[i].posts = <<>>
               /\ Finished(h[i]) => h[i].resp = Ack

\* C3: the allow-list gate blocks the callers that ALLOWED_USERS does not list, and
\* only them: such a request makes no POST and is acknowledged; a request of a
\* listed caller that carries the three geolocation fields has its recognized
\* fields forwarded.
C3_GateBlocksUnauthorizedOnly ==
    \A i \in Slots :
        /\ (Started(h[i]) /\ ~Authorized(h[i].params))
               => /\ h[i].posts = <<>>
                  /\ Finished(h[i]) => h[i].resp = Ack
        /\ (Finished(h[i]) /\ Authorized(h[i].params) /\ ~geoMissing(h[i].params)
                /\ \A j \in 1..Len(h[i].posts) : h[i].posts[j].outcome = "200")
               => PostKeys(h[i]) = Recognized(h[i].params)

\* C4: a request that passed the gate and whose outbound calls all succeeded has
\* made exactly one POST per key of the request that the Key Directory holds and
\* none for any other key; each POST carries the metric name of its key's entry
\* and the value of that parameter.
C4_OnePostPerRecognizedKey ==
    \A i \in Slots :
        (h[i].pc = "done" /\ \A j \in 1..Len(h[i].posts) : h[i].posts[j].outcome = "200")
            => /\ Len(h[i].posts) = Cardinality(Recognized(h[i].params))
               /\ PostKeys(h[i]) = Recognized(h[i].params)
               /\ \A j \in 1..Len(h[i].posts) :
                      LET post == h[i].posts[j]
                      IN  /\ post.gts.Name = torqueKeys[post.key].MetricName
                          /\ post.gts.Value = h[i].params[post.key]
                          /\ post.gts.TS = Get(h[i].params, "time")
                          /\ post.gts.Lat = Get(h[i].params, "kff1006")
                          /\ post.gts.Long = Get(h[i].params, "kff1005")

C4_Witness ==
    /\ h[1].pc = "done"
    /\ {"kc", "kd", "v"} \subseteq DOMAIN h[1].params
    /\ Len(h[1].posts) = 2
    /\ \A j \in 1..2 : h[1].posts[j].outcome = "200"

\* C5 (part_001): the body of every forwarded record is
\* <time>000/<latitude>:<longitude>/<elevation> <metricName>{<labels>} <value>,
\* latitude, longitude and value as the request gave them; and the record
\* 1500000000000000, 45.0, 3.0, 12345, speed, id=42, 87 is serialized as the
\* specification's example.
C5_BodyFormat ==
    /\ GTSPrint(GTS("1500000000000000", "45.0", "3.0", "12345", "speed", "id=42", "87"))
           = "1500000000000000/45.0:3.0/12345 speed{id=42} 87"
    /\ \A i \in Slots : \A j \in 1..Len(h[i].posts) :
           LET post == h[i].posts[j]
               p    == h[i].params
           IN  post.body = Get(p, "time") \o "000" \o "/" \o Get(p, "kff1006") \o ":"
                               \o Get(p, "kff1005") \o "/" \o post.gts.Elev \o " "
                               \o post.gts.Name \o "{" \o post.gts.Labels \o "} "
                               \o Get(p, post.key)

C5_Witness ==
    \E j \in 1..Len(h[1].posts) :
        /\ h[1].posts[j].body = "100000/45.0:3.0/12345 rpm{id=7} 3000"
        /\ h[1].posts[j].outcome = "200"

\* Whether s holds two commas in a row.
DoubledComma(s) == \E j \in 1..(Len(s) - 1) : Char(s, j) = "," /\ Char(s, j + 1) = ","

\* C6 (part_000, part_001): the labels of every forwarded record are id=<deviceId>
\* alone when the tag of the field's directory entry is empty and
\* id=<deviceId>,<tag> when it is not: the identity label comes first and there is
\* no leading, trailing or doubled comma.
C6_Labels ==
    \A i \in Slots : \A j \in 1..Len(h[i].posts) :
        LET post   == h[i].posts[j]
            tag    == torqueKeys[post.key].Tag
            idl    == "id=" \o Get(h[i].params, "id")
            labels == post.gts.Labels
        IN  /\ tag = "" => labels = idl
            /\ tag # "" => labels = idl \o "," \o tag
            /\ SubSeq(labels, 1, Len(idl)) = idl
            /\ Char(labels, 1) # "," /\ Char(labels, Len(labels)) # ","
            /\ ~DoubledComma(labels)

C6_Witness ==
    \E j, k \in 1..Len(h[1].posts) :
        /\ h[1].posts[j].gts.Labels = "id=42"
        /\ h[1].posts[k].gts.Labels = "id=42,type=sensor"

\* A configuration error, given what fetching keys.csv gave.
ConfigError(fetch) ==
    \/ Len(env.WARP10_ENDPOINT) = 0 \/ Len(env.WARP10_TOKEN) = 0
    \/ Len(env.ALLOWED_USERS) = 0
    \/ fetch.err
    \/ \E j \in 1..Len(fetch.rows) : Len(fetch.rows[j]) # 3

\* C7: after a configuration error (no destination URL or token, no or an empty
\* ALLOWED_USERS, keys.csv unreachable or with a row that has not three columns)
\* init ends the process: main never starts the listener.
C7_NoServingAfterConfigError ==
    [][\A fetch \in CsvFetches : (init(fetch) /\ ConfigError(fetch)) => proc' = "exited"]_vars

\* The decimal literal s times 1000, truncated toward zero, in exact arithmetic.
ExactMillis(s) ==
    LET d   == Decimal(s)
        mag == (d.n * 1000) \div 10^d.k
    IN  IF d.neg THEN -mag ELSE mag

\* C8 (part_000, part_001): a request that passed the gate with a kff1010 that is
\* no number has logged the parse error, uses elevation 0 and still forwards its
\* recognized fields and is acknowledged; with a numeric kff1010 the elevation of
\* its records is the value times 1000, truncated to an integer.
C8_Elevation ==
    \A i \in Slots :
        h[i].pc \in {"loop", "done", "panicked"} =>
            LET e == Get(h[i].params, "kff1010")
            IN  /\ ~Decimal(e).ok =>
                       /\ h[i].altitude = "0"
                       /\ h[i].log # <<>> /\ h[i].log[1] = "ParseFloat: invalid syntax"
                       /\ (h[i].pc = "done" => h[i].resp = Ack /\ PostKeys(h[i]) = Recognized(h[i].params))
                /\ Decimal(e).ok => h[i].altitude = Itoa(ExactMillis(e))
                /\ \A j \in 1..Len(h[i].posts) : h[i].posts[j].gts.Elev = h[i].altitude

\* C9: a request that passed the gate makes a forwarding attempt for every one of
\* its recognized fields, whatever the outcome of the attempts before: once the
\* execution has ended, each recognized field has its POST.
C9_EveryFieldAttempted ==
    \A i \in Slots :
        h[i].pc \in {"done", "panicked"} => PostKeys(h[i]) = Recognized(h[i].params)

\* The Key Directories init can load.
LoadedDirectories ==
    { feedTorqueKeys(f.rows) : f \in { g \in CsvFetches : ~g.err /\ ~ReadAllFails(g.rows) } }

\* C10 (executions interleaved): once init has loaded it, the Key Directory holds
\* the metric names and tags of keys.csv for good, and the labels of a record hold
\* the device id of its own request before the tag of keys.csv, never an id of
\* another request.
C10_DirectoryReadOnly ==
    /\ proc \in {"initialized", "serving"} => torqueKeys \in LoadedDirectories
    /\ \A i \in Slots : \A j \in 1..Len(h[i].posts) :
           \E d \in LoadedDirectories :
               h[i].posts[j].gts.Labels = withId(Get(h[i].params, "id"), d[h[i].posts[j].key].Tag)

C10_Witness ==
    /\ h[1].pc = "loop" /\ h[2].pc = "loop"
    /\ Get(h[1].params, "id") # Get(h[2].params, "id")
    /\ "kd" \in PostKeys(h[1]) /\ "kd" \in PostKeys(h[2])

=============================================================================
